---- MODULE Spec2Model ----
(***************************************************************************)
(* The Audible metadata source plugin: Audible.create_query,               *)
(* Audible.identify and Audible.download_cover (src/__init__.py) and the   *)
(* detail-fetch thread Worker (src/worker.py).                             *)
(*                                                                         *)
(* Values.  A Python str is a TLA+ string, None (and JSON null) in a       *)
(* string position is the string None.  A JSON object / Python dict is a   *)
(* function whose DOMAIN is the set of keys that are present, so a         *)
(* KeyError is "key \notin DOMAIN".  A list is a sequence.  A URL is the   *)
(* sequence of the string pieces the code concatenates.                    *)
(***************************************************************************)
EXTENDS Integers, Sequences, FiniteSets, TLC

\* ------------------------------------------------------------------ bounds
MaxProducts == 2      \* items in a search response
MaxGenres == 2        \* genre names handed to the genre -> tag conversion
MaxEntries == 2       \* entries of the configured genre -> tags table
MaxTags == 2          \* tags one table entry maps to

\* --------------------------------------------------------- Python values
None == "<None>"
EmptyDict == <<>>

Truthy(s) == s \notin {None, ""}

Get(d, k) == IF k \in DOMAIN d THEN d[k] ELSE None

Range(s) == {s[i] : i \in 1..Len(s)}

\* ------------------------------------------------- class Audible constants
ID_NAME == "audible"
AUDIBLE_API_URL == "https://api.audible.com"
AUDNEXUS_URL == "https://api.audnex.us"
AUDIBLE_API_PATH == "/1.0/catalog/products?"
AUDNEXUS_PATH == "/books/"
AUDIBLE_API_QUERY == "num_results=25&products_sort_by=Relevance"
AUDIBLE_API_TITLE_QUERY == "&title="
AUDIBLE_API_AUTHOR_QUERY == "&author="

\* The identifiers the catalogue knows in this model.
ASINS == {"B002V19RO6", "B00B5HZGUG"}

\* create_query: '' and None both come back as None, modelled as the empty URL.
NoQuery == <<>>

\* create_query with the tests of lines 92 and 94 in the other order.
create_query_search_first(title, authors, identifiers, asin) ==
    LET audible_id == IF Truthy(asin) THEN asin ELSE Get(identifiers, ID_NAME)
        q == IF Truthy(title) \/ authors # <<>>
             THEN <<AUDIBLE_API_URL, AUDIBLE_API_PATH, AUDIBLE_API_QUERY>>
                  \o (IF Truthy(title) THEN <<AUDIBLE_API_TITLE_QUERY, title>> ELSE <<>>)
                  \o (IF authors # <<>> THEN <<AUDIBLE_API_AUTHOR_QUERY, authors[1]>> ELSE <<>>)
             ELSE IF Truthy(audible_id)
             THEN <<AUDNEXUS_URL, AUDNEXUS_PATH, audible_id>>
             ELSE <<>>
    IN  IF q = <<>> THEN NoQuery ELSE q

\* create_query, lines 86-103.
create_query(title, authors, identifiers, asin) ==
    LET audible_id == IF Truthy(asin) THEN asin ELSE Get(identifiers, ID_NAME)
        q == IF Truthy(audible_id)
             THEN <<AUDNEXUS_URL, AUDNEXUS_PATH, audible_id>>
             ELSE IF Truthy(title) \/ authors # <<>>
             THEN <<AUDIBLE_API_URL, AUDIBLE_API_PATH, AUDIBLE_API_QUERY>>
                  \o (IF Truthy(title) THEN <<AUDIBLE_API_TITLE_QUERY, title>> ELSE <<>>)
                  \o (IF authors # <<>> THEN <<AUDIBLE_API_AUTHOR_QUERY, authors[1]>> ELSE <<>>)
             ELSE <<>>
    IN  IF q = <<>> THEN NoQuery ELSE q

IsDetailUrl(url) == Len(url) = 3 /\ url[1] = AUDNEXUS_URL /\ url[2] = AUDNEXUS_PATH

IsSearchUrl(url) == Len(url) >= 3 /\ url[1] = AUDIBLE_API_URL /\ url[2] = AUDIBLE_API_PATH

DetailUrl(id) == <<AUDNEXUS_URL, AUDNEXUS_PATH, id>>

\* ------------------------------------------------------------ str methods
\* A str the code takes apart (lower, capitalize, split, float) is a sequence
\* of one-character strings.
LowerOf == ("A" :> "a") @@ ("B" :> "b") @@ ("E" :> "e") @@ ("N" :> "n")

UpperOf == ("a" :> "A") @@ ("b" :> "B") @@ ("e" :> "E") @@ ("n" :> "N")

lower(s) == [i \in 1..Len(s) |-> IF s[i] \in DOMAIN LowerOf THEN LowerOf[s[i]] ELSE s[i]]

capitalize(s) ==
    [i \in 1..Len(s) |->
        IF i = 1 THEN (IF s[i] \in DOMAIN UpperOf THEN UpperOf[s[i]] ELSE s[i])
        ELSE (IF s[i] \in DOMAIN LowerOf THEN LowerOf[s[i]] ELSE s[i])]

\* s.split(' '): the maximal runs between single spaces (empty runs included).
RECURSIVE split(_)
split(s) ==
    IF \A i \in 1..Len(s) : s[i] # " " THEN <<s>>
    ELSE LET k == CHOOSE i \in 1..Len(s) : s[i] = " " /\ \A j \in 1..(i - 1) : s[j] # " "
         IN  <<SubSeq(s, 1, k - 1)>> \o split(SubSeq(s, k + 1, Len(s)))

\* float(s) for the literals D+ and D+.D, in tenths; anything else raises ValueError.
DigitOf == ("0" :> 0) @@ ("1" :> 1) @@ ("3" :> 3) @@ ("4" :> 4) @@ ("5" :> 5)

RECURSIVE DigitsValue(_)
DigitsValue(s) == IF s = <<>> THEN 0 ELSE 10 * DigitsValue(SubSeq(s, 1, Len(s) - 1)) + DigitOf[s[Len(s)]]

AllDigits(s) == s # <<>> /\ \A i \in 1..Len(s) : s[i] \in DOMAIN DigitOf

float_raises(s) ==
    ~ (AllDigits(s)
       \/ (Len(s) >= 3 /\ s[Len(s) - 1] = "." /\ AllDigits(SubSeq(s, 1, Len(s) - 2))
           /\ s[Len(s)] \in DOMAIN DigitOf))

float(s) ==
    IF AllDigits(s) THEN 10 * DigitsValue(s)
    ELSE 10 * DigitsValue(SubSeq(s, 1, Len(s) - 2)) + DigitOf[s[Len(s)]]

\* ', '.join(names)
RECURSIVE join(_)
join(names) ==
    IF names = <<>> THEN <<>>
    ELSE IF Len(names) = 1 THEN names
    ELSE <<names[1], ", ">> \o join(Tail(names))

\* None in a numeric and in a date position of the metadata record.
NoneNum == 0 - 1
NoneDate == [y |-> 0, m |-> 0, d |-> 0, H |-> 0]

\* ------------------------------------------------------- Worker (worker.py)
\* root["authors"] / root["narrators"]: the list of the entries' names; KeyError
\* when the key or an entry's "name" is absent.
names_raise(root, key) ==
    key \notin DOMAIN root \/ \E i \in 1..Len(root[key]) : "name" \notin DOMAIN root[key][i]

names_of(root, key) == [i \in 1..Len(root[key]) |-> root[key][i].name]

parse_authors_raises(root) == names_raise(root, "authors")

parse_authors(root) == names_of(root, "authors")

parse_narrators_raises(root) == names_raise(root, "narrators")

parse_narrators(root) == names_of(root, "narrators")

\* parse_series: (series, series_index); a falsy node gives (None, None).
parse_series_raises(root) ==
    \/ "seriesPrimary" \notin DOMAIN root
    \/ /\ root.seriesPrimary # EmptyDict
       /\ \/ "name" \notin DOMAIN root.seriesPrimary
          \/ "position" \notin DOMAIN root.seriesPrimary
          \/ Len(split(root.seriesPrimary.position)) < 2
          \/ float_raises(split(root.seriesPrimary.position)[2])

parse_series(root) ==
    IF root.seriesPrimary = EmptyDict
    THEN [series |-> None, series_index |-> NoneNum]
    ELSE [series |-> root.seriesPrimary.name,
          series_index |-> float(split(root.seriesPrimary.position)[2])]

\* _convert_date_text: strptime with '%Y-%m-%dT%H:%M:%S.%fZ', then midnight of
\* that day.  A date text is its fields plus whether it matches the format.
convert_date_text_raises(date_text) == ~ date_text.fmt

convert_date_text(date_text) == [y |-> date_text.y, m |-> date_text.m, d |-> date_text.d, H |-> 0]

\* _convert_genres_to_calibre_tags.  The table is a list of (genre, tags)
\* entries in the dict's order with distinct keys; dict((k.lower(), v) ...)
\* keeps, for keys that agree once lowered, the last one.
calibre_tag_map_get(calibre_tag_lookup, genre_tag) ==
    LET hits == {i \in 1..Len(calibre_tag_lookup) :
                    lower(calibre_tag_lookup[i].genre) = lower(genre_tag)}
    IN  IF hits = {} THEN <<>>
        ELSE calibre_tag_lookup[CHOOSE i \in hits : \A j \in hits : j <= i].tags

\* Lines 229-231 without the membership test of line 230.
RECURSIVE add_tags_no_dedup(_, _)
add_tags_no_dedup(tags_to_add, tags) ==
    IF tags = <<>> THEN tags_to_add
    ELSE add_tags_no_dedup(Append(tags_to_add, tags[1]), Tail(tags))

\* Lines 229-231: each tag of one genre is added unless already there.
RECURSIVE add_tags(_, _)
add_tags(tags_to_add, tags) ==
    IF tags = <<>> THEN tags_to_add
    ELSE add_tags(IF tags[1] \in Range(tags_to_add) THEN tags_to_add
                  ELSE Append(tags_to_add, tags[1]),
                  Tail(tags))

RECURSIVE convert_loop(_, _, _)
convert_loop(calibre_tag_lookup, genre_tags, tags_to_add) ==
    IF genre_tags = <<>> THEN tags_to_add
    ELSE convert_loop(calibre_tag_lookup, Tail(genre_tags),
                      add_tags(tags_to_add, calibre_tag_map_get(calibre_tag_lookup, genre_tags[1])))

convert_genres_to_calibre_tags(calibre_tag_lookup, genre_tags) ==
    convert_loop(calibre_tag_lookup, genre_tags, <<>>)

\* parse_tags: None (here <<>>) unless the genres give at least one tag.
parse_tags_raises(root) == names_raise(root, "genres")

parse_tags(calibre_tag_lookup, root) ==
    convert_genres_to_calibre_tags(calibre_tag_lookup, names_of(root, "genres"))

\* The record Metadata(title, authors) starts as: every other field unset.
Metadata(title, authors) ==
    [title |-> title, authors |-> authors, audible |-> None,
     series |-> None, series_index |-> NoneNum, rating |-> NoneNum,
     has_cover |-> FALSE, tags |-> <<>>, publisher |-> None, pubdate |-> NoneDate,
     language |-> <<>>, comments |-> <<>>, source_relevance |-> NoneNum]

NoRecord == Metadata(None, <<>>)

\* Line 100 without its authors test.
required_present_no_authors(title, authors, audible_id) ==
    Truthy(title) /\ Truthy(audible_id)

\* Line 100: the required-fields check.
required_present(title, authors, audible_id) ==
    Truthy(title) /\ authors # <<>> /\ Truthy(audible_id)

\* parse_details.  result: "abandoned" (the return of line 104), "raised" (an
\* exception leaves parse_details: the locals narrators and summary are bound
\* only when their try block succeeded, and lines 164 and 166 read them) or
\* "emitted" (line 180).  cover_url is what line 177 hands to the host cache.
\* The host's clean_downloaded_metadata is not part of this repository and is
\* taken to leave the record's fields as they are.
parse_details(calibre_tag_lookup, root, relevance) ==
    LET audible_id == IF "asin" \in DOMAIN root THEN root.asin ELSE None
        title == IF "title" \in DOMAIN root THEN root.title ELSE None
        authors == IF parse_authors_raises(root) THEN <<>> ELSE parse_authors(root)
    IN  IF ~ required_present(title, authors, audible_id)
        THEN [result |-> "abandoned", mi |-> NoRecord, cover_url |-> None]
        ELSE
        LET narrators_bound == ~ parse_narrators_raises(root)
            narrators == IF narrators_bound THEN parse_narrators(root) ELSE <<>>
            sr == IF parse_series_raises(root)
                  THEN [series |-> None, series_index |-> NoneNum]
                  ELSE parse_series(root)
            rating == IF "rating" \notin DOMAIN root \/ float_raises(root.rating)
                      THEN NoneNum ELSE float(root.rating)
            summary_bound == "summary" \in DOMAIN root
            summary == IF summary_bound THEN root.summary ELSE None
            cover_url == IF "image" \in DOMAIN root THEN root.image ELSE None
            tags == IF parse_tags_raises(root) THEN <<>>
                    ELSE parse_tags(calibre_tag_lookup, root)
            publisher == IF "publisherName" \in DOMAIN root THEN root.publisherName ELSE None
            pubdate == IF "releaseDate" \notin DOMAIN root
                          \/ convert_date_text_raises(root.releaseDate)
                       THEN NoneDate ELSE convert_date_text(root.releaseDate)
            language == IF "language" \in DOMAIN root THEN capitalize(root.language) ELSE <<>>
            commets == <<"<p id=\"narrators\">Narrators: ">> \o join(narrators) \o <<"</p>">>
                       \o (IF summary # None THEN <<summary>> ELSE <<>>)
            mi == [Metadata(title, authors) EXCEPT
                      !.audible = audible_id,
                      !.series = sr.series,
                      !.series_index = IF sr.series # None THEN sr.series_index ELSE NoneNum,
                      !.rating = rating,
                      !.has_cover = Truthy(cover_url),
                      !.tags = tags,
                      !.publisher = publisher,
                      !.pubdate = pubdate,
                      !.language = language,
                      !.comments = commets,
                      !.source_relevance = relevance]
        IN  IF ~ narrators_bound \/ ~ summary_bound
            THEN [result |-> "raised", mi |-> NoRecord, cover_url |-> None]
            ELSE [result |-> "emitted", mi |-> mi, cover_url |-> cover_url]

\* ------------------------------------------------------- detail documents
GoodDate == [fmt |-> TRUE, y |-> 2013, m |-> 6, d |-> 25, H |-> 10]
BadDate == [fmt |-> FALSE, y |-> 0, m |-> 0, d |-> 0, H |-> 0]

Field(key, values) == {EmptyDict} \cup {key :> v : v \in values}

AsinField == Field("asin", {None, "B002V19RO6"})
TitleField == Field("title", {"", "1984"})
AuthorsField == Field("authors", {<<>>, <<EmptyDict>>, <<[name |-> "George Orwell"]>>,
                                  <<[name |-> "George Orwell"], EmptyDict>>})
NarratorsField == Field("narrators", {<<[name |-> "Simon Prebble"]>>, <<EmptyDict>>})
SeriesField == Field("seriesPrimary", {[name |-> "Dune", position |-> <<"B", " ", "3">>],
                                       [name |-> "Dune", position |-> <<"3">>]})
RatingField == Field("rating", {<<"4", ".", "5">>, <<"n", "/", "a">>})
SummaryField == Field("summary", {"<p>A dystopia</p>"})
ImageField == Field("image", {"https://m.media-amazon.com/images/I/1984.jpg"})
GenresField == Field("genres", {<<[name |-> <<"a">>]>>, <<EmptyDict>>})
PublisherField == Field("publisherName", {"Blackstone"})
DateField == Field("releaseDate", {GoodDate, BadDate})
LanguageField == Field("language", {<<"e", "N">>})

\* Every detail document parse_details is checked on.
DocSpace ==
    {a @@ t @@ au @@ n @@ se @@ r @@ su @@ im @@ g @@ p @@ d @@ l :
        a \in AsinField, t \in TitleField, au \in AuthorsField, n \in NarratorsField,
        se \in SeriesField, r \in RatingField, su \in SummaryField, im \in ImageField,
        g \in GenresField, p \in PublisherField, d \in DateField, l \in LanguageField}

\* The complete document of one identifier.
FullDoc(id) ==
    [asin |-> id, title |-> "1984", authors |-> <<[name |-> "George Orwell"]>>,
     narrators |-> <<[name |-> "Simon Prebble"]>>,
     seriesPrimary |-> [name |-> "Dune", position |-> <<"B", " ", "3">>],
     rating |-> <<"4", ".", "5">>, summary |-> "<p>A dystopia</p>",
     image |-> "https://m.media-amazon.com/images/I/1984.jpg",
     genres |-> <<[name |-> <<"a">>]>>, publisherName |-> "Blackstone",
     releaseDate |-> GoodDate, language |-> <<"e", "N">>]

Without(doc, key) == [k \in DOMAIN doc \ {key} |-> doc[k]]

\* The documents the detail host serves in the identify model.
DetailDocs == {FullDoc("B002V19RO6"), Without(FullDoc("B00B5HZGUG"), "narrators")}

\* The configured genre -> tags table of the identify model.
DefaultGenreMappings == <<[genre |-> <<"A">>, tags |-> <<"Fiction">>]>>

\* ------------------------------------------------------------------ state
VARIABLES
    pc,                 \* where identify is: "idle", a line label, or a return
    args,               \* identify's title, authors, identifiers
    abort,              \* the host's cancellation flag (abort.is_set())
    matches,            \* identify's list of URLs to fetch
    workers,            \* the Worker threads, in dispatch order
    poll,               \* the loop locals of lines 166-180
    result_queue,       \* the shared queue of emitted records
    cover_cache,        \* the host cache identifier -> cover URL
    search_requests,    \* search requests identify has sent
    response,           \* what the search request came back with
    joins_after_abort,  \* w.join calls that ended with the flag set
    genre_mappings,     \* the configured genre -> tags table
    conv,               \* one call of _convert_genres_to_calibre_tags
    dc,                 \* one call of download_cover
    cover_queue         \* download_cover's result queue

vars == <<pc, args, abort, matches, workers, poll, result_queue, cover_cache,
          search_requests, response, joins_after_abort, genre_mappings, conv, dc, cover_queue>>

NoArgs == [title |-> None, authors |-> <<>>, identifiers |-> EmptyDict]
NoResponse == [kind |-> "none", json |-> FALSE, raw |-> EmptyDict]
NoPoll == [i |-> 0, a_worker_is_alive |-> FALSE]
NoConv == [genre_tags |-> <<>>, tags |-> <<>>, done |-> FALSE]
NoCall == [pc |-> "idle", title |-> None, authors |-> <<>>, identifiers |-> EmptyDict,
           cached_url |-> None]

Returns == {"ret134", "ret143", "ret151", "ret157", "ret160", "ret182"}

Returned == pc \in Returns

\* What the host may pass to identify.
Titles == {None, "1984"}
AuthorLists == {<<>>, <<"George Orwell">>}
IdentifierMaps == {EmptyDict} \cup {ID_NAME :> a : a \in ASINS}

\* What the search endpoint may answer: HTTP 404, another transport error,
\* or a body, which is not JSON or is a JSON object.  A result item has no
\* asin, a null asin or an identifier.
Items == {EmptyDict, [asin |-> None], [asin |-> "B002V19RO6"]}
ProductLists == UNION {[1..n -> Items] : n \in 0..MaxProducts}
SearchBodies == {EmptyDict, [total_results |-> "0"]} \cup {[products |-> ps] : ps \in ProductLists}
SearchResponses ==
    {[kind |-> k, json |-> FALSE, raw |-> EmptyDict] : k \in {"http404", "error", "body"}}
    \cup {[kind |-> "body", json |-> TRUE, raw |-> r] : r \in SearchBodies}

\* What the detail endpoint may answer.
DetailResponses ==
    {[kind |-> k, json |-> FALSE, raw |-> EmptyDict] : k \in {"http404", "timeout", "error", "body"}}
    \cup {[kind |-> "body", json |-> TRUE, raw |-> r] : r \in {EmptyDict} \cup DetailDocs}

\* A Worker thread: its url and relevance, where its run is (st), how many
\* times it has opened the url, and the document it read (root).
Worker(url, relevance) == [url |-> url, relevance |-> relevance, st |-> "new",
                           opens |-> 0, root |-> EmptyDict]

is_alive(w) == w.st \in {"fetching", "parsing"}

Init ==
    /\ pc = "idle"
    /\ args = NoArgs
    /\ abort = FALSE
    /\ matches = <<>>
    /\ workers = <<>>
    /\ poll = NoPoll
    /\ result_queue = <<>>
    /\ cover_cache = EmptyDict
    /\ search_requests = 0
    /\ response = NoResponse
    /\ joins_after_abort = 0
    /\ genre_mappings = DefaultGenreMappings
    /\ conv = NoConv
    /\ dc = NoCall
    /\ cover_queue = <<>>

\* ------------------------------------------------- Audible.identify (host)
\* The host calls identify(log, result_queue, abort, title, authors, identifiers).
Call(title, authors, identifiers) ==
    /\ pc = "idle"
    /\ pc' = "l126"
    /\ args' = [title |-> title, authors |-> authors, identifiers |-> identifiers]
    /\ UNCHANGED <<abort, matches, workers, poll, result_queue, cover_cache,
                   search_requests, response, joins_after_abort, genre_mappings, conv, dc, cover_queue>>

\* The host sets the cancellation flag, at any moment.
SetAbort ==
    /\ ~ abort
    /\ abort' = TRUE
    /\ UNCHANGED <<pc, args, matches, workers, poll, result_queue, cover_cache,
                   search_requests, response, joins_after_abort, genre_mappings, conv, dc, cover_queue>>

\* Lines 126-127: a known identifier gives the one query, with no search.
Direct ==
    /\ pc = "l126"
    /\ Truthy(Get(args.identifiers, ID_NAME))
    /\ matches' = <<create_query(args.title, args.authors, args.identifiers, None)>>
    /\ pc' = "l159"
    /\ UNCHANGED <<args, abort, workers, poll, result_queue, cover_cache,
                   search_requests, response, joins_after_abort, genre_mappings, conv, dc, cover_queue>>

\* Lines 129-134: no identifier and nothing to search for.
Insufficient ==
    /\ pc = "l126"
    /\ ~ Truthy(Get(args.identifiers, ID_NAME))
    /\ create_query(args.title, args.authors, args.identifiers, None) = NoQuery
    /\ pc' = "ret134"
    /\ UNCHANGED <<args, abort, matches, workers, poll, result_queue, cover_cache,
                   search_requests, response, joins_after_abort, genre_mappings, conv, dc, cover_queue>>

\* Lines 145-157 on a JSON body that is not falsy: the queries built before
\* the loop ends or raises, and whether it raised (KeyError on "products" or on
\* an item's "asin").
products_of(raw) == IF "products" \in DOMAIN raw THEN raw.products ELSE <<>>

good_prefix(products) ==
    CHOOSE n \in 0..Len(products) :
        /\ \A i \in 1..n : "asin" \in DOMAIN products[i]
        /\ n < Len(products) => "asin" \notin DOMAIN products[n + 1]

built_matches(title, authors, identifiers, raw) ==
    [i \in 1..good_prefix(products_of(raw)) |->
        create_query(title, authors, identifiers, products_of(raw)[i].asin)]

products_raise(raw) ==
    "products" \notin DOMAIN raw \/ good_prefix(raw.products) < Len(raw.products)

\* Lines 136-157 with the except of lines 154-157 only logging.
search_step_keep_going(title, authors, identifiers, resp) ==
    IF resp.kind = "http404" THEN [pc |-> "ret143", matches |-> <<>>]
    ELSE IF resp.kind # "body" THEN [pc |-> "l159", matches |-> <<>>]
    ELSE IF ~ resp.json THEN [pc |-> "ret157", matches |-> <<>>]
    ELSE IF resp.raw = EmptyDict THEN [pc |-> "ret151", matches |-> <<>>]
    ELSE [pc |-> "l159",
          matches |-> built_matches(title, authors, identifiers, resp.raw)]

\* Lines 136-157 for one response: where identify goes and what matches holds.
search_step(title, authors, identifiers, resp) ==
    IF resp.kind = "http404" THEN [pc |-> "ret143", matches |-> <<>>]
    ELSE IF resp.kind # "body" THEN [pc |-> "l159", matches |-> <<>>]
    ELSE IF ~ resp.json THEN [pc |-> "ret157", matches |-> <<>>]
    ELSE IF resp.raw = EmptyDict THEN [pc |-> "ret151", matches |-> <<>>]
    ELSE [pc |-> IF products_raise(resp.raw) THEN "ret157" ELSE "l159",
          matches |-> built_matches(title, authors, identifiers, resp.raw)]

\* Lines 129-157: the search request and the reading of its response.
Search(r) ==
    /\ pc = "l126"
    /\ ~ Truthy(Get(args.identifiers, ID_NAME))
    /\ create_query(args.title, args.authors, args.identifiers, None) # NoQuery
    /\ search_requests' = search_requests + 1
    /\ response' = r
    /\ LET step == search_step(args.title, args.authors, args.identifiers, r)
       IN  pc' = step.pc /\ matches' = step.matches
    /\ UNCHANGED <<args, abort, workers, poll, result_queue, cover_cache,
                   joins_after_abort, genre_mappings, conv, dc, cover_queue>>

\* Every worker ranked 0.
relevance_all_zero(i) == 0

\* Line 163: enumerate(matches) ranks the i-th match i - 1.
relevance_of(i) == i - 1

make_workers(urls) == [i \in 1..Len(urls) |-> Worker(urls[i], relevance_of(i))]

\* Lines 159-164: the cancellation check, then one Worker per match, ranked by
\* its position in matches.
Dispatch ==
    /\ pc = "l159"
    /\ IF abort
       THEN pc' = "ret160" /\ UNCHANGED <<workers, poll>>
       ELSE /\ workers' = make_workers(matches)
            /\ IF matches = <<>>
               THEN pc' = "l171" /\ UNCHANGED poll
               ELSE pc' = "l166" /\ poll' = [poll EXCEPT !.i = 1]
    /\ UNCHANGED <<args, abort, matches, result_queue, cover_cache,
                   search_requests, response, joins_after_abort, genre_mappings, conv, dc, cover_queue>>

\* Lines 166-169: w.start() for the next worker (then the 0.1 s sleep).
Start ==
    /\ pc = "l166"
    /\ workers' = [workers EXCEPT ![poll.i].st = "fetching"]
    /\ IF poll.i = Len(workers)
       THEN pc' = "l171" /\ poll' = NoPoll
       ELSE pc' = "l166" /\ poll' = [poll EXCEPT !.i = poll.i + 1]
    /\ UNCHANGED <<args, abort, matches, result_queue, cover_cache,
                   search_requests, response, joins_after_abort, genre_mappings, conv, dc, cover_queue>>

\* Lines 171-173: the while test, then the for loop is entered.
While ==
    /\ pc = "l171"
    /\ IF abort
       THEN pc' = "ret182" /\ poll' = NoPoll
       ELSE IF workers = <<>>
       THEN pc' = "l179" /\ poll' = [i |-> 0, a_worker_is_alive |-> FALSE]
       ELSE pc' = "l174" /\ poll' = [i |-> 1, a_worker_is_alive |-> FALSE]
    /\ UNCHANGED <<args, abort, matches, workers, result_queue, cover_cache,
                   search_requests, response, joins_after_abort, genre_mappings, conv, dc, cover_queue>>

\* Line 174: w.join(0.2) ends, the worker finished or not.
Join ==
    /\ pc = "l174"
    /\ pc' = "l175"
    /\ joins_after_abort' = IF abort THEN joins_after_abort + 1 ELSE joins_after_abort
    /\ UNCHANGED <<args, abort, matches, workers, poll, result_queue, cover_cache,
                   search_requests, response, genre_mappings, conv, dc, cover_queue>>

\* Lines 175-176 left out.
break_never(flag) == FALSE

\* Lines 175-176: break out of the for loop when the flag is set.
break_on_abort(flag) == flag

CheckAbort ==
    /\ pc = "l175"
    /\ pc' = IF break_on_abort(abort) THEN "l179" ELSE "l177"
    /\ UNCHANGED <<args, abort, matches, workers, poll, result_queue, cover_cache,
                   search_requests, response, joins_after_abort, genre_mappings, conv, dc, cover_queue>>

\* Lines 177-178, and the for loop's step to the next worker.
CheckAlive ==
    /\ pc = "l177"
    /\ poll' = [i |-> IF poll.i = Len(workers) THEN 0 ELSE poll.i + 1,
                a_worker_is_alive |-> poll.a_worker_is_alive \/ is_alive(workers[poll.i])]
    /\ pc' = IF poll.i = Len(workers) THEN "l179" ELSE "l174"
    /\ UNCHANGED <<args, abort, matches, workers, result_queue, cover_cache,
                   search_requests, response, joins_after_abort, genre_mappings, conv, dc, cover_queue>>

\* Lines 179-182: leave the while loop when no worker was seen alive.
AfterFor ==
    /\ pc = "l179"
    /\ pc' = IF ~ poll.a_worker_is_alive THEN "ret182" ELSE "l171"
    /\ poll' = NoPoll
    /\ UNCHANGED <<args, abort, matches, workers, result_queue, cover_cache,
                   search_requests, response, joins_after_abort, genre_mappings, conv, dc, cover_queue>>

\* ------------------------------------------------------------- Worker.run
\* get_details, lines 55-77, for one response of the detail host: "parsing"
\* when parse_details is reached, else the task is over (json.loads raising
\* is caught by run like every other exception).
fetch_step(resp) ==
    IF resp.kind = "body" /\ resp.json /\ resp.raw # EmptyDict
    THEN "parsing" ELSE "abandoned"

Fetch(i, resp) ==
    /\ i \in 1..Len(workers)
    /\ workers[i].st = "fetching"
    /\ workers' = [workers EXCEPT ![i].st = fetch_step(resp),
                                  ![i].opens = @ + 1,
                                  ![i].root = IF fetch_step(resp) = "parsing"
                                              THEN resp.raw ELSE EmptyDict]
    /\ UNCHANGED <<pc, args, abort, matches, poll, result_queue, cover_cache,
                   search_requests, response, joins_after_abort, genre_mappings, conv, dc, cover_queue>>

\* parse_details under run: the record is put on the queue and its cover URL
\* cached (lines 173-180), or the task ends with nothing emitted.
Parse(i) ==
    /\ i \in 1..Len(workers)
    /\ workers[i].st = "parsing"
    /\ LET out == parse_details(genre_mappings, workers[i].root, workers[i].relevance)
       IN  IF out.result = "emitted"
           THEN /\ workers' = [workers EXCEPT ![i].st = "emitted"]
                /\ result_queue' = Append(result_queue, out.mi)
                /\ cover_cache' = IF Truthy(out.cover_url)
                                  THEN (out.mi.audible :> out.cover_url) @@ cover_cache
                                  ELSE cover_cache
           ELSE /\ workers' = [workers EXCEPT ![i].st = "abandoned"]
                /\ UNCHANGED <<result_queue, cover_cache>>
    /\ UNCHANGED <<pc, args, abort, matches, poll,
                   search_requests, response, joins_after_abort, genre_mappings, conv, dc, cover_queue>>

\* -------------------------------------------------------- the identify model
Next ==
    \/ \E t \in Titles, a \in AuthorLists, ids \in IdentifierMaps : Call(t, a, ids)
    \/ SetAbort
    \/ Direct
    \/ Insufficient
    \/ \E r \in SearchResponses : Search(r)
    \/ Dispatch
    \/ Start
    \/ While
    \/ Join
    \/ CheckAbort
    \/ CheckAlive
    \/ AfterFor
    \/ \E i \in 1..MaxProducts, r \in DetailResponses : Fetch(i, r)
    \/ \E i \in 1..MaxProducts : Parse(i)

Spec == Init /\ [][Next]_vars

\* The scheduler keeps the thread that runs identify running.
IdentifyThread ==
    \/ Direct
    \/ Insufficient
    \/ \E r \in SearchResponses : Search(r)
    \/ Dispatch
    \/ Start
    \/ While
    \/ Join
    \/ CheckAbort
    \/ CheckAlive
    \/ AfterFor

FairSpec == Spec /\ WF_vars(IdentifyThread)

\* ----------------------------------------------------- claims on identify
KnownId == Truthy(Get(args.identifiers, ID_NAME))

Polling == pc \in {"l171", "l174", "l175", "l177", "l179"}

AllFinished == \A i \in 1..Len(workers) : workers[i].st \in {"emitted", "abandoned"}

RecordOf(i) ==
    result_queue[CHOOSE k \in 1..Len(result_queue) :
                    result_queue[k].source_relevance = workers[i].relevance]

C5_RetriesWithoutIdentifiers ==
    (/\ KnownId /\ (Truthy(args.title) \/ args.authors # <<>>)
     /\ pc = "ret182" /\ ~ abort /\ result_queue = <<>>)
        => search_requests >= 1

C6_State ==
    /\ (Returned /\ ~ abort) => \A i \in 1..Len(workers) : ~ is_alive(workers[i])
    /\ (pc = "ret182" /\ ~ abort) => AllFinished
    /\ joins_after_abort <= 1

\* C6: while the cancellation flag is not set identify never returns with a
\* spawned task still running, it does return once all of them have finished,
\* and once the flag is set at most one bounded join still ends before it
\* stops polling, whether or not the other tasks have finished.
C6_PollingEnds == [] C6_State /\ ((Polling /\ AllFinished) ~> Returned)

C6_Witness ==
    /\ pc = "ret182" /\ abort /\ joins_after_abort = 1
    /\ \E i \in 1..Len(workers) : is_alive(workers[i])

SearchFailed ==
    \/ response.kind \in {"http404", "error"}
    \/ /\ response.kind = "body"
       /\ \/ ~ response.json
          \/ response.raw = EmptyDict
          \/ "products" \notin DOMAIN response.raw
          \/ \E i \in 1..Len(response.raw.products) : "asin" \notin DOMAIN response.raw.products[i]

\* C7: after a search that failed (HTTP 404, another transport error, an
\* empty or unreadable response, a products list with an item without asin,
\* even a later one) identify spawns no fetch task, no record is emitted, and
\* identify is at a return or on its way through lines 159-182 with nothing
\* to start.
C7_SearchFailureAborts ==
    SearchFailed =>
        /\ workers = <<>>
        /\ result_queue = <<>>
        /\ pc \in Returns \cup {"l159", "l171", "l179"}
        /\ response.kind # "error" => pc \in {"ret143", "ret151", "ret157"}
        /\ response.kind = "error" => matches = <<>>

C7_Witness ==
    /\ pc = "ret157"
    /\ response.kind = "body" /\ response.json
    /\ "products" \in DOMAIN response.raw
    /\ Len(response.raw.products) = 2
    /\ "asin" \in DOMAIN response.raw.products[1]
    /\ "asin" \notin DOMAIN response.raw.products[2]
    /\ matches # <<>>

\* C9: after a successful search there is one query per result item, each the
\* detail-lookup URL of that item's identifier, and no fetch task is handed a
\* search-form URL.
C9_OnlyDetailQueries ==
    (response.kind = "body" /\ ~ SearchFailed) =>
        /\ Len(matches) = Len(response.raw.products)
        /\ \A i \in 1..Len(matches) : IsDetailUrl(matches[i])
        /\ \A i \in 1..Len(workers) : ~ IsSearchUrl(workers[i].url)

StateRank(st) ==
    CASE st = "new" -> 0
      [] st = "fetching" -> 1
      [] st = "parsing" -> 2
      [] OTHER -> 3

C10_State ==
    /\ \A i \in 1..Len(workers) :
          /\ workers[i].relevance = i - 1
          /\ workers[i].opens <= 1
          /\ workers[i].opens = 1 <=> StateRank(workers[i].st) >= 2
          /\ workers[i].st = "emitted" <=>
                \E k \in 1..Len(result_queue) : result_queue[k].source_relevance = i - 1
    /\ \A k \in 1..Len(result_queue) :
          /\ result_queue[k].source_relevance \in 0..(Len(workers) - 1)
          /\ \A l \in 1..Len(result_queue) :
                result_queue[k].source_relevance = result_queue[l].source_relevance => k = l

C10_Step ==
    \A i \in 1..Len(workers) :
        /\ Len(workers') = Len(workers)
        /\ StateRank(workers'[i].st) >= StateRank(workers[i].st)
        /\ StateRank(workers[i].st) = 3 => workers'[i].st = workers[i].st
        /\ workers'[i].st = "parsing" => workers[i].st \in {"fetching", "parsing"}
        /\ workers'[i].st = "emitted" => workers[i].st \in {"parsing", "emitted"}
        /\ workers'[i].st = "fetching" => workers[i].st \in {"new", "fetching"}

\* C10: under every interleaving each task moves forward only, new ->
\* fetching -> parsing -> emitted, or to abandoned from fetching or parsing,
\* opens its URL once, and the record it emits carries its dispatch position
\* as rank: the ranks on the queue are pairwise distinct, lie in 0..N-1, and
\* there is one record exactly for each task that emitted.
C10_LinearTasksDistinctRanks == [] C10_State /\ [][C10_Step]_vars

C10_Witness ==
    /\ Len(result_queue) = 2
    /\ result_queue[1].source_relevance = 1
    /\ result_queue[2].source_relevance = 0

\* ------------------------------------------ parse_details on every document
\* identify is polling its one task, which has read a document of DocSpace and
\* is about to run parse_details.
InitDetails ==
    /\ pc = "l171"
    /\ args = [NoArgs EXCEPT !.identifiers = [audible |-> "B002V19RO6"]]
    /\ abort = FALSE
    /\ matches = <<DetailUrl("B002V19RO6")>>
    /\ \E doc \in DocSpace :
          workers = <<[Worker(DetailUrl("B002V19RO6"), 0) EXCEPT
                          !.st = "parsing", !.opens = 1, !.root = doc]>>
    /\ poll = NoPoll
    /\ result_queue = <<>>
    /\ cover_cache = EmptyDict
    /\ search_requests = 0
    /\ response = NoResponse
    /\ joins_after_abort = 0
    /\ genre_mappings = DefaultGenreMappings
    /\ conv = NoConv
    /\ dc = NoCall
    /\ cover_queue = <<>>

NextDetails == \E i \in 1..1 : Parse(i)

SpecDetails == InitDetails /\ [][NextDetails]_vars

\* The document has an identifier, a title and a non-empty authors list whose
\* entries all have a name.
RequiredValid(root) ==
    /\ "asin" \in DOMAIN root /\ Truthy(root.asin)
    /\ "title" \in DOMAIN root /\ Truthy(root.title)
    /\ "authors" \in DOMAIN root /\ root.authors # <<>>
    /\ \A i \in 1..Len(root.authors) : "name" \in DOMAIN root.authors[i]

Finished(w) == w.st \in {"emitted", "abandoned"}

\* C1: a document whose identifier, title and authors are valid puts exactly
\* one record on the result queue, whichever optional fields are missing or
\* malformed.
C1_ValidDocumentEmits ==
    \A i \in 1..Len(workers) :
        (Finished(workers[i]) /\ RequiredValid(workers[i].root)) =>
            /\ workers[i].st = "emitted"
            /\ Len(result_queue) = 1

\* C2: every record on the result queue has a non-empty title, a non-empty
\* authors list and an identifier; a document in which the title, the authors
\* (an empty list or an entry without a name included) or the asin is missing
\* emits no record and writes nothing to the host cache, whatever its other
\* fields.
C2_RequiredFieldsGuardEmission ==
    /\ \A k \in 1..Len(result_queue) :
          /\ Truthy(result_queue[k].title)
          /\ result_queue[k].authors # <<>>
          /\ Truthy(result_queue[k].audible)
    /\ \A i \in 1..Len(workers) :
          (Finished(workers[i]) /\ ~ RequiredValid(workers[i].root)) =>
              /\ workers[i].st = "abandoned"
              /\ result_queue = <<>>
              /\ cover_cache = EmptyDict

C2_Witness ==
    /\ workers[1].st = "abandoned"
    /\ DOMAIN workers[1].root = DOMAIN FullDoc("B002V19RO6") \ {"title"}
    /\ workers[1].root.authors = <<[name |-> "George Orwell"]>>
    /\ Truthy(workers[1].root.asin)
    /\ ~ float_raises(workers[1].root.rating)
    /\ result_queue = <<>>
    /\ cover_cache = EmptyDict

\* ------------------------------------- _convert_genres_to_calibre_tags alone
TagNames == {"Fiction", "SciFi"}
GenreNames == {<<"a">>, <<"A">>, <<"b">>}
TagLists == UNION {[1..n -> TagNames] : n \in 0..MaxTags}
GenreLists == UNION {[1..n -> GenreNames] : n \in 0..MaxGenres}
Entries == [genre : GenreNames, tags : TagLists]
\* A dict has no key twice.
Tables ==
    {t \in UNION {[1..n -> Entries] : n \in 0..MaxEntries} :
        \A i, j \in 1..Len(t) : t[i].genre = t[j].genre => i = j}

InitTags ==
    /\ pc = "idle"
    /\ args = NoArgs
    /\ abort = FALSE
    /\ matches = <<>>
    /\ workers = <<>>
    /\ poll = NoPoll
    /\ result_queue = <<>>
    /\ cover_cache = EmptyDict
    /\ search_requests = 0
    /\ response = NoResponse
    /\ joins_after_abort = 0
    /\ genre_mappings \in Tables
    /\ \E g \in GenreLists : conv = [NoConv EXCEPT !.genre_tags = g]
    /\ dc = NoCall
    /\ cover_queue = <<>>

Convert ==
    /\ ~ conv.done
    /\ conv' = [conv EXCEPT !.tags = convert_genres_to_calibre_tags(genre_mappings, conv.genre_tags),
                            !.done = TRUE]
    /\ UNCHANGED <<pc, args, abort, matches, workers, poll, result_queue, cover_cache,
                   search_requests, response, joins_after_abort, genre_mappings, dc, cover_queue>>

NextTags == Convert

SpecTags == InitTags /\ [][NextTags]_vars

SameIgnoringCase(a, b) == lower(a) = lower(b)

RECURSIVE Produced(_)
Produced(genre_tags) ==
    IF genre_tags = <<>> THEN <<>>
    ELSE calibre_tag_map_get(genre_mappings, genre_tags[1]) \o Produced(Tail(genre_tags))

FirstAt(seq, x) == CHOOSE i \in 1..Len(seq) : seq[i] = x /\ \A j \in 1..(i - 1) : seq[j] # x

\* C8: the conversion looks each genre up ignoring letter case and returns the
\* mapped tags without duplicates, in the order each tag is first produced;
\* a genre with no mapping contributes nothing.
C8_TagsCaseInsensitiveDeduplicated ==
    conv.done =>
        LET out == conv.tags
            all == Produced(conv.genre_tags)
        IN  /\ \A i, j \in 1..Len(out) : out[i] = out[j] => i = j
            /\ \A i \in 1..Len(out) :
                  \E g \in 1..Len(conv.genre_tags), e \in 1..Len(genre_mappings) :
                      /\ SameIgnoringCase(genre_mappings[e].genre, conv.genre_tags[g])
                      /\ out[i] \in Range(genre_mappings[e].tags)
            /\ \A g \in 1..Len(conv.genre_tags) :
                  (\E e \in 1..Len(genre_mappings) :
                      SameIgnoringCase(genre_mappings[e].genre, conv.genre_tags[g]))
                  => \E e \in 1..Len(genre_mappings) :
                        /\ SameIgnoringCase(genre_mappings[e].genre, conv.genre_tags[g])
                        /\ Range(genre_mappings[e].tags) \subseteq Range(out)
            /\ Range(out) = Range(all)
            /\ \A i, j \in 1..Len(out) : i < j => FirstAt(all, out[i]) < FirstAt(all, out[j])

C8_Witness ==
    /\ conv.done
    /\ conv.genre_tags = <<<<"a">>, <<"b">>>>
    /\ Len(genre_mappings) = 2
    /\ genre_mappings[1].genre = <<"A">>
    /\ genre_mappings[1].tags = <<"Fiction", "SciFi">>
    /\ genre_mappings[2].tags = <<"SciFi", "Fiction">>
    /\ conv.tags = <<"Fiction", "SciFi">>

\* ------------------------------------------------- Audible.download_cover
\* get_cached_cover_url: the host cache's URL for identifiers["audible"].
get_cached_cover_url(cache, identifiers) ==
    IF Get(identifiers, ID_NAME) # None THEN Get(cache, Get(identifiers, ID_NAME)) ELSE None

\* Line 113: the parameters identify can be called with; lines 191-192: the
\* keywords download_cover calls it with.  A keyword that is no parameter is
\* a TypeError at the call.
identify_parameters == {"log", "result_queue", "abort", "title", "authors", "identifiers", "timeout"}

download_cover_keywords == {"title", "authors", "hiddenauthors", "identifiers"}

identify_call_raises == ~ (download_cover_keywords \subseteq identify_parameters)

\* The caches earlier identify calls can have left with the host.
CoverCaches ==
    {EmptyDict} \cup
    UNION {[ids -> {"https://m.media-amazon.com/images/I/1984.jpg"}] : ids \in SUBSET ASINS \ {{}}}

InitCover ==
    /\ pc = "idle"
    /\ args = NoArgs
    /\ abort = FALSE
    /\ matches = <<>>
    /\ workers = <<>>
    /\ poll = NoPoll
    /\ result_queue = <<>>
    /\ cover_cache \in CoverCaches
    /\ search_requests = 0
    /\ response = NoResponse
    /\ joins_after_abort = 0
    /\ genre_mappings = DefaultGenreMappings
    /\ conv = NoConv
    /\ dc = NoCall
    /\ cover_queue = <<>>

\* The host calls download_cover(log, result_queue, abort, title, authors, identifiers).
CoverCall(title, authors, identifiers) ==
    /\ dc.pc = "idle"
    /\ dc' = [pc |-> "l187", title |-> title, authors |-> authors,
              identifiers |-> identifiers, cached_url |-> None]
    /\ UNCHANGED <<pc, args, abort, matches, workers, poll, result_queue, cover_cache,
                   search_requests, response, joins_after_abort, genre_mappings, conv, cover_queue>>

\* Lines 187-209.  With no cached URL the identify call of line 191 is made;
\* it raises before identify runs, which leaves lines 193-206 unreached.
CoverLookup ==
    /\ dc.pc = "l187"
    /\ LET cached_url == get_cached_cover_url(cover_cache, dc.identifiers)
       IN  IF cached_url = None
           THEN dc' = [dc EXCEPT !.pc = IF identify_call_raises THEN "raised" ELSE "ret209"]
           ELSE dc' = [dc EXCEPT !.pc = "l211", !.cached_url = cached_url]
    /\ UNCHANGED <<pc, args, abort, matches, workers, poll, result_queue, cover_cache,
                   search_requests, response, joins_after_abort, genre_mappings, conv, cover_queue>>

\* Lines 211-212.
CoverAbortCheck ==
    /\ dc.pc = "l211"
    /\ dc' = [dc EXCEPT !.pc = IF abort THEN "ret212" ELSE "l216"]
    /\ UNCHANGED <<pc, args, abort, matches, workers, poll, result_queue, cover_cache,
                   search_requests, response, joins_after_abort, genre_mappings, conv, cover_queue>>

\* Lines 213-219: the image is read and put on the queue, or the failure logged.
CoverFetch(ok) ==
    /\ dc.pc = "l216"
    /\ dc' = [dc EXCEPT !.pc = "ret219"]
    /\ cover_queue' = IF ok THEN Append(cover_queue, <<"Audible", dc.cached_url>>) ELSE cover_queue
    /\ UNCHANGED <<pc, args, abort, matches, workers, poll, result_queue, cover_cache,
                   search_requests, response, joins_after_abort, genre_mappings, conv>>

NextCover ==
    \/ \E t \in Titles, a \in AuthorLists, ids \in IdentifierMaps : CoverCall(t, a, ids)
    \/ SetAbort
    \/ CoverLookup
    \/ CoverAbortCheck
    \/ \E ok \in BOOLEAN : CoverFetch(ok)

SpecCover == InitCover /\ [][NextCover]_vars

\* C3: download_cover never raises to its caller; with no cached cover URL it
\* runs identify and ends with the cover on the queue or with nothing put and
\* a normal return.
C3_NeverRaises ==
    /\ dc.pc # "raised"
    /\ dc.pc \in {"ret209", "ret212", "ret219"} => Len(cover_queue) <= 1

====
